---- MODULE Spec2Model ----
(***************************************************************************)
(* The reconstruction pipelines of the repository as one state machine:    *)
(*   "mesh"     src/mesh/mesh.py main()            (Meshroom, argparse)    *)
(*   "new_mesh" src/mesh/new_mesh.py main()        (Meshroom, constants)   *)
(*   "colmap"   src/meshbackend/mesh.py __main__   (COLMAP, Python)        *)
(*   "chain"    src/mesh/mesh_chain.py             (COLMAP, bash set -e)   *)
(* A behaviour fixes one program and runs it repeatedly on the same        *)
(* working directory: every run is a fresh process, the disk is kept.      *)
(* Every external command is two steps, its start and its exit, because    *)
(* subprocess.run and the shell block on the child between them.           *)
(***************************************************************************)
EXTENDS Integers, Sequences, FiniteSets, TLC

\* ------------------------------------------------------------- bounds
MaxRuns == 2       \* runs of the program on one working directory
MaxRc == 2         \* external commands exit with a code in 0..MaxRc
MaxRaw == 3        \* frames ffmpeg writes in one run: 0..MaxRaw
MaxCap == 2        \* --max-frames values: -1..MaxCap
MaxPerKind == 2    \* files of one kind in a node directory: 0..MaxPerKind
MaxFiles == 3      \* image files one conversion finds: 0..MaxFiles
MaxWorkers == 2    \* os.cpu_count(): threads of the conversion pool
MaxCpus == 3       \* multiprocessing.cpu_count() on the orchestrator's host: 1..MaxCpus
MaxCycles == 2     \* iterations of a poller's while True loop
MaxTimeout == 3    \* timeout_s of _wait_for_gemini_file_active, in seconds: 1..MaxTimeout

\* ------------------------------------------------- program constants
FrameDigits == 6   \* frame_%06d.png

Progs == {"mesh", "new_mesh", "colmap", "chain"}
Meshroom == {"mesh", "new_mesh"}
ExitCodes == 0..MaxRc

\* -------------------------------------------------------------- text
\* Strings the programs take apart are sequences of one-character strings.
Whitespace == {" ", "\n"}

RECURSIVE LStrip(_)
LStrip(s) ==
    IF s = <<>> THEN s
    ELSE IF Head(s) \in Whitespace THEN LStrip(Tail(s)) ELSE s

RECURSIVE RStrip(_)
RStrip(s) ==
    IF s = <<>> THEN s
    ELSE IF s[Len(s)] \in Whitespace THEN RStrip(SubSeq(s, 1, Len(s) - 1)) ELSE s

\* str.strip()
Strip(s) == RStrip(LStrip(s))

FirstIndex(s, c) ==
    IF \E i \in DOMAIN s : s[i] = c
    THEN CHOOSE i \in DOMAIN s : s[i] = c /\ \A j \in 1..(i - 1) : s[j] # c
    ELSE 0

\* str.split(sep): "" splits to [""], "a,,b" to ["a", "", "b"]
RECURSIVE Split(_, _)
Split(s, sep) ==
    LET i == FirstIndex(s, sep) IN
    IF i = 0 THEN <<s>>
    ELSE <<SubSeq(s, 1, i - 1)>> \o Split(SubSeq(s, i + 1, Len(s)), sep)

\* str.splitlines(): "" gives [], a trailing newline adds no empty line
RECURSIVE SplitLines(_)
SplitLines(s) ==
    LET i == FirstIndex(s, "\n") IN
    IF s = <<>> THEN <<>>
    ELSE IF i = 0 THEN <<s>>
    ELSE <<SubSeq(s, 1, i - 1)>> \o SplitLines(SubSeq(s, i + 1, Len(s)))

NonEmpty(t) == t # <<>>

\* [g.strip() for g in parts if g.strip() != ""]
StripAll(parts) == [i \in DOMAIN parts |-> Strip(parts[i])]
CleanIds(parts) == SelectSeq(StripAll(parts), NonEmpty)

\* ",".join(ids)
RECURSIVE Join(_)
Join(ids) ==
    IF ids = <<>> THEN <<>>
    ELSE IF Len(ids) = 1 THEN ids[1]
    ELSE ids[1] \o <<",">> \o Join(Tail(ids))

\* ------------------------------------------------------- frame names
RECURSIVE Digits(_)
Digits(n) == IF n < 10 THEN <<n>> ELSE Digits(n \div 10) \o <<n % 10>>

RECURSIVE ZeroPad(_, _)
ZeroPad(d, w) == IF Len(d) >= w THEN d ELSE ZeroPad(<<0>> \o d, w)

\* the digits of frame_%06d.png for index i
FrameName(i) == ZeroPad(Digits(i), FrameDigits)

\* the order sorted() gives two frame paths: character by character, and
\* "." sorts before every digit, so a shorter number that is a prefix is less
RECURSIVE NameLess(_, _)
NameLess(a, b) ==
    IF a = <<>> THEN b # <<>>
    ELSE IF b = <<>> THEN FALSE
    ELSE IF Head(a) # Head(b) THEN Head(a) < Head(b)
    ELSE NameLess(Tail(a), Tail(b))

\* sorted(frames_dir.glob("frame_*.png")) as the sequence of frame indices
RECURSIVE SortedFrames(_)
SortedFrames(S) ==
    IF S = {} THEN <<>>
    ELSE LET m == CHOOSE x \in S :
                     \A y \in S \ {x} : NameLess(FrameName(x), FrameName(y))
         IN <<m>> \o SortedFrames(S \ {m})

\* -------------------------------------------------------------- state
VARIABLES
    prog,          \* the program every run of this behaviour executes
    run_no,        \* runs started so far on this working directory
    pc,            \* where the current process is
    exit_code,     \* the process exit status, once pc = "exited"
    log,           \* the external commands this run has started, in order
    busy,          \* an external command is running and the process waits
    overlap,       \* a command was started while another was still running
    rc,            \* exit code of the command that finished last
    fail_at,       \* the step at which this run failed, or none
    video_exists,  \* the source video is there
    max_frames,    \* --max-frames / MAX_FRAMES
    gpus,          \* --gpus, as typed
    detect_calls,  \* calls of detect_gpus in this run
    detect_how,    \* how the detection went: none, absent, nonzero, undecodable, ok
    detected,      \* what detect_gpus returned
    gpu_ids,       \* the accelerator set the run uses
    dl,            \* download_meshroom: none, called, returned, raised
    ef,            \* extract_frames: none, called, returned, raised
    raw,           \* frames ffmpeg wrote in this run
    unlinked,      \* frames the cap deleted in this run
    collected,     \* artifact collection ran in this run
    idx,           \* colmap, chain: the position in the command list
    frames,        \* disk: indices of <workdir>/frames/frame_*.png
    tgz,           \* disk: the toolchain archive: absent, partial, complete
    tree,          \* disk: the unpacked toolchain: none, empty, root, nested
    xbit,          \* disk: the toolchain executable has execute permission
    have_ffmpeg,   \* host: ffmpeg is installed
    chain_dirs,    \* disk: colmap_sparse / colmap_text directories exist
    prev_dl,       \* the previous call of download_meshroom on this workdir
    said,          \* the warning the step just taken printed, or none
    cpus,          \* host: multiprocessing.cpu_count()
    inherited,     \* os.environ of the process, device variables only
    env,           \* the env handed to the reconstruction command, likewise
    cache,         \* disk: output/MeshroomCache/Texturing as the tool leaves it
    final,         \* disk: the file names in output/final
    copied,        \* the files this run copied to output/final, with their source
    inputs,        \* conversion: the image files the glob found
    corrupt,       \* conversion: the inputs PIL cannot open or convert
    pending,       \* conversion: submitted to the pool, not yet started
    active,        \* conversion: in a worker thread
    outdir,        \* disk: conversion output directory, name -> the input saved there
    temp,          \* disk: temp_frames, whether it exists and the files in it
    fmt,           \* video_to_frames: --format
    ret,           \* video_to_frames: what process_video_to_ppm returned, or none
    made,          \* the directories this run's main has created
    images_ok,     \* chain: $IMAGES_DIR is a directory
    colmap_ok,     \* chain: $COLMAP_EXE is a file
    ngp_ok,        \* chain: $NGP_DIR is a directory
    scene,         \* disk: data/$SCENE_NAME exists
    db,            \* disk: the file colmap.db exists
    seen,          \* poller: seen_files / seen
    attempts,      \* poller: name -> how often this process began to handle it
    todo,          \* poller: what is left of the listing the for loop walks
    cycles,        \* poller: iterations of while True begun so far
    present,       \* the bucket's keys / the files in WATCH_DIR
    delivered,     \* the names whose handling ran to its end
    cur,           \* lambda_poller: the name whose loop body is running, or <<>>
    ply,           \* lambda_poller: the names whose placeholder PLY is in the bucket
    narr,          \* lambda_poller: the names process_video was called for
    route,         \* app.py: the route that serves the request
    tmp,           \* app.py: the temporary file of the upload route
    rm_tried,      \* app.py: os.remove(tmp_path) was called
    gstate,        \* Gemini: the state of the uploaded file at the service
    fstate,        \* the state in the file object the program holds
    elapsed,       \* app.py: time.time() - start, in seconds
    timeout_s,     \* app.py: _wait_for_gemini_file_active's timeout_s
    wout,          \* app.py: how _wait_for_gemini_file_active ended, or none
    resp           \* app.py: the route's result or error, or none

procv == <<prog, run_no>>
ctlv == <<pc, exit_code, fail_at>>
cmdv == <<log, busy, overlap, rc, said>>
argv == <<video_exists, max_frames, gpus>>
gpuv == <<detect_calls, detect_how, detected, gpu_ids>>
framev == <<ef, raw, unlinked, frames>>
toolv == <<dl, tgz, tree, xbit, prev_dl>>
miscv == <<collected, idx, have_ffmpeg, chain_dirs, made>>
envv == <<cpus, inherited, env>>
collv == <<cache, final, copied>>
convv == <<inputs, corrupt, pending, active, outdir>>
vidv == <<temp, fmt, ret>>
\* what only the programs beside the two orchestrators and run_colmap use
chainv == <<images_ok, colmap_ok, ngp_ok, scene, db>>
pollv == <<seen, attempts, todo, cycles, present, delivered, cur, ply, narr>>
appv == <<route, tmp, rm_tried, gstate, fstate, elapsed, timeout_s, wout, resp>>
sidev == <<vidv, chainv, pollv, appv>>
vars == <<procv, ctlv, cmdv, argv, gpuv, framev, toolv, miscv, envv, collv, convv, sidev>>

\* ------------------------------------------------------------- inputs
Auto == <<"a", "u", "t", "o">>
\* --gpus values: auto, "1,0", " 0,,1", ""
GpuArgs == {Auto, <<"1", ",", "0">>, <<" ", "0", ",", ",", "1">>, <<>>}
\* --max-frames is any int (argparse type=int); MAX_FRAMES is a positive cap
CapArgs(p) == IF p = "mesh" THEN (-1)..MaxCap ELSE 1..MaxCap
\* what nvidia-smi prints on stdout
SmiOutputs == {<<>>, <<"0", "\n", " ", "\n", "1", "\n">>}
\* what an archive holds: no Meshroom-* directory, one without the
\* executable, the executable at its top, the executable in a subdirectory
Layouts == {"none", "empty", "root", "nested"}
HasExe(t) == t \in {"root", "nested"}

\* the texturing cache: whether the directory exists, and its node
\* subdirectories in the order of their st_mtime, each with the number of
\* *.obj, *.mtl and *.png files it holds (file i of a kind is <<kind, i>>)
Kinds == {"obj", "mtl", "png"}
\* no node directory, one, an older and a newer one
NodeCounts == {0, 1, 2}
NoCache == [exists |-> FALSE, nodes |-> <<>>]
NodeDirs == [Kinds -> 0..MaxPerKind]
CacheStates ==
    {NoCache} \cup
    {[exists |-> TRUE, nodes |-> s] : s \in UNION {[1..n -> NodeDirs] : n \in NodeCounts}}
FilesOf(node) == {f \in Kinds \X (1..MaxPerKind) : f[2] <= node[f[1]]}

\* the device variables the process can inherit, each unset or set
CudaVars == {"ALICEVISION_CUDA_DEVICES", "CUDA_VISIBLE_DEVICES"}
InheritedEnvs == UNION {[S -> {<<"7">>}] : S \in SUBSET CudaVars}
\* accelerator sets: none, one id, two ids
GpuSets == {<<>>, <<(<<"0">>)>>, <<(<<"1">>), (<<"0">>)>>}

\* temp_frames does not exist
\* S3 keys / file names, in the bucket listing's order (UTF-8 binary):
\* "B.MOV", "a.mp4", "mp4", "n.txt"
KeyOrder ==
    << <<"B", ".", "M", "O", "V">>, <<"a", ".", "m", "p", "4">>,
       <<"m", "p", "4">>, <<"n", ".", "t", "x", "t">> >>
Names == {KeyOrder[i] : i \in DOMAIN KeyOrder}

NoTemp == [exists |-> FALSE, files |-> {}]

\* ------------------------------------------------------ process steps
\* as Popen would: the caller goes on while the child runs
BlockingPopen == FALSE

\* subprocess.run and a foreground shell command wait for the child
Blocking == TRUE

\* start external command c
Launch(c) ==
    /\ ~(busy /\ Blocking)
    /\ log' = Append(log, c)
    /\ overlap' = (overlap \/ busy)
    /\ busy' = TRUE
    /\ rc' = 0
    /\ said' = "none"

\* the running command exits with code k, and the caller prints msg
ReapSaying(k, msg) ==
    /\ busy
    /\ busy' = FALSE
    /\ rc' = k
    /\ said' = msg
    /\ UNCHANGED <<log, overlap>>

\* the running command exits with code k
Reap(k) == ReapSaying(k, "none")

\* sys.exit(code), or the end of the script
ExitWith(code, why) ==
    /\ pc' = "exited"
    /\ exit_code' = code
    /\ fail_at' = why

\* as with a loop that tries the failed step again
RetryStep(why) == UNCHANGED <<pc, exit_code, fail_at>>

\* an exception nothing catches: the interpreter prints it and exits 1
Uncaught(why) == ExitWith(1, why)

Goto(next) ==
    /\ pc' = next
    /\ UNCHANGED <<exit_code, fail_at>>

\* the record StartRun keeps of the run's download_meshroom call
Count(c) == Cardinality({i \in DOMAIN log : log[i] = c})
DlRecord == [ok |-> dl = "returned", wget |-> Count("wget"), tar |-> Count("tar")]
NoDl == [ok |-> FALSE, wget |-> 0, tar |-> 0]

\* as with main going to ensure_tools without looking at the video
FirstPcUnchecked(p) ==
    CASE p \in Meshroom -> "tools_update"
      [] p = "colmap" -> "convert"
      [] p = "chain" -> "stage"

FirstPc(p) ==
    CASE p \in Meshroom -> "check_video"
      [] p = "colmap" -> "convert"
      [] p = "chain" -> "stage"

\* a fresh process on the same working directory
StartRun ==
    /\ pc \in {"idle", "exited"}
    /\ run_no < MaxRuns
    /\ run_no' = run_no + 1
    /\ prev_dl' = IF dl = "none" THEN prev_dl ELSE DlRecord
    /\ pc' = FirstPc(prog)
    /\ exit_code' = 0
    /\ fail_at' = "none"
    /\ log' = <<>>
    /\ busy' = FALSE
    /\ overlap' = FALSE
    /\ rc' = 0
    /\ video_exists' \in (IF prog \in Meshroom THEN BOOLEAN ELSE {TRUE})
    /\ max_frames' \in (IF prog \in Meshroom THEN CapArgs(prog) ELSE {1})
    /\ gpus' \in (IF prog = "mesh" THEN GpuArgs ELSE {Auto})
    /\ detect_calls' = 0
    /\ detect_how' = "none"
    /\ detected' = <<>>
    /\ gpu_ids' = <<>>
    /\ dl' = "none"
    /\ ef' = "none"
    /\ raw' = 0
    /\ unlinked' = {}
    /\ collected' = FALSE
    /\ idx' = 1
    /\ said' = "none"
    /\ env' = <<>>
    /\ copied' = {}
    /\ made' = {}
    /\ UNCHANGED <<prog, frames, tgz, tree, xbit, have_ffmpeg, chain_dirs>>
    /\ UNCHANGED <<cpus, inherited, cache, final, convv, sidev>>

\* ---------------------------------------------- mesh.py / new_mesh.py
\* the directories main creates right after the video check: mesh.py
\* output_dir.mkdir(parents=True), new_mesh.py WORKDIR.mkdir and
\* output_dir.mkdir
MainDirs(p) == {"workdir", "output"}

\* if not video_path.exists(): sys.exit(1)
CheckVideo ==
    /\ pc = "check_video"
    /\ IF video_exists
       THEN Goto("tools_update") /\ made' = made \cup MainDirs(prog)
       ELSE ExitWith(1, "none") /\ UNCHANGED made
    /\ UNCHANGED <<procv, cmdv, argv, gpuv, framev, toolv, envv, collv, convv, sidev>>
    /\ UNCHANGED <<collected, idx, have_ffmpeg, chain_dirs>>

\* apt_install: run(["sudo", "apt-get", "update", "-y"])
AptUpdateStart ==
    /\ pc \in {"tools_update", "ffmpeg_update"}
    /\ Launch("apt_update")
    /\ UNCHANGED <<procv, ctlv, argv, gpuv, framev, toolv, miscv, envv, collv, convv, sidev>>

\* as with download_meshroom called right after ensure_ffmpeg's install,
\* before detect_gpus
AfterAptSkipsDetect(p) ==
    IF p \in {"tools_update", "tools_install"} THEN "ffmpeg_version" ELSE "provision"

\* the pc after an apt_install call that began at pc p
AfterApt(p) == IF p \in {"tools_update", "tools_install"} THEN "ffmpeg_version" ELSE "detect"
InstallPc(p) == IF p = "tools_update" THEN "tools_install" ELSE "ffmpeg_install"

\* what apt_install's except clause prints for exit code k: mesh.py
\* "apt-get failed (continuing if already installed)", new_mesh.py nothing
AptFailureLog(p, k) == IF k # 0 /\ p = "mesh" THEN "apt_failed" ELSE "none"

\* a failed update raises CalledProcessError, which apt_install swallows
AptUpdateExit ==
    /\ pc \in {"tools_update", "ffmpeg_update"}
    /\ \E k \in ExitCodes :
          /\ ReapSaying(k, AptFailureLog(prog, k))
          /\ Goto(IF k = 0 THEN InstallPc(pc) ELSE AfterApt(pc))
    /\ UNCHANGED <<procv, argv, gpuv, framev, toolv, miscv, envv, collv, convv, sidev>>

AptInstallStart ==
    /\ pc \in {"tools_install", "ffmpeg_install"}
    /\ Launch("apt_install")
    /\ UNCHANGED <<procv, ctlv, argv, gpuv, framev, toolv, miscv, envv, collv, convv, sidev>>

AptInstallExit ==
    /\ pc \in {"tools_install", "ffmpeg_install"}
    /\ \E k \in ExitCodes :
          /\ ReapSaying(k, AptFailureLog(prog, k))
          /\ have_ffmpeg' = (have_ffmpeg \/ (pc = "ffmpeg_install" /\ k = 0))
    /\ Goto(AfterApt(pc))
    /\ UNCHANGED <<procv, argv, gpuv, framev, toolv, collected, idx, chain_dirs, made, envv, collv, convv, sidev>>

\* ensure_ffmpeg: run(["ffmpeg", "-version"]); any exception -> apt_install
FfmpegVersionStart ==
    /\ pc = "ffmpeg_version"
    /\ have_ffmpeg
    /\ Launch("ffmpeg_version")
    /\ UNCHANGED <<procv, ctlv, argv, gpuv, framev, toolv, miscv, envv, collv, convv, sidev>>

FfmpegVersionExit ==
    /\ pc = "ffmpeg_version"
    /\ \E k \in ExitCodes :
          /\ Reap(k)
          /\ Goto(IF k = 0 THEN "detect" ELSE "ffmpeg_update")
    /\ UNCHANGED <<procv, argv, gpuv, framev, toolv, miscv, envv, collv, convv, sidev>>

\* ffmpeg is not installed: FileNotFoundError, caught by except Exception
FfmpegVersionMissing ==
    /\ pc = "ffmpeg_version"
    /\ ~busy
    /\ ~have_ffmpeg
    /\ Goto("ffmpeg_update")
    /\ UNCHANGED <<procv, cmdv, argv, gpuv, framev, toolv, miscv, envv, collv, convv, sidev>>

\* as with except subprocess.CalledProcessError, the clause apt_install has
DetectCatchesNarrow(e) == e = "nonzero"

\* detect_gpus: except Exception catches every error of the query
DetectCatches(e) == TRUE

\* out.decode().strip().splitlines(), each line stripped, empty ones dropped
ParseSmi(out) == CleanIds(SplitLines(Strip(out)))

\* main: gpu_ids = detected under auto, else the --gpus list cleaned;
\* new_mesh.py has no --gpus and always uses what was detected
DecideGpus(det) ==
    IF prog = "new_mesh" \/ gpus = Auto THEN det ELSE CleanIds(Split(gpus, ","))

\* detect_gpus returns: how is none when check_output and decode succeeded
DetectReturn(how, result) ==
    /\ detect_how' = (IF how = "none" THEN "ok" ELSE how)
    /\ IF how = "none" \/ DetectCatches(how)
       THEN /\ detected' = (IF how = "none" THEN result ELSE <<>>)
            /\ gpu_ids' = DecideGpus(detected')
            /\ Goto("provision")
       ELSE /\ Uncaught("nvidia_smi")
            /\ UNCHANGED <<detected, gpu_ids>>

\* detected = detect_gpus() with nvidia-smi not installed: FileNotFoundError
DetectAbsent ==
    /\ pc = "detect"
    /\ ~busy
    /\ detect_calls' = detect_calls + 1
    /\ DetectReturn("absent", <<>>)
    /\ UNCHANGED <<procv, cmdv, argv, framev, toolv, miscv, envv, collv, convv, sidev>>

\* detected = detect_gpus(): check_output starts nvidia-smi
DetectStart ==
    /\ pc = "detect"
    /\ Launch("nvidia_smi")
    /\ detect_calls' = detect_calls + 1
    /\ UNCHANGED <<procv, ctlv, argv, detect_how, detected, gpu_ids, framev, toolv, miscv, envv, collv, convv, sidev>>

DetectExit ==
    /\ pc = "detect"
    /\ \E k \in ExitCodes, out \in SmiOutputs, decodable \in BOOLEAN :
          /\ Reap(k)
          /\ DetectReturn(IF k # 0 THEN "nonzero"
                          ELSE IF ~decodable THEN "undecodable" ELSE "none",
                          ParseSmi(out))
    /\ UNCHANGED <<procv, argv, detect_calls, framev, toolv, miscv, envv, collv, convv, sidev>>

\* download_meshroom, to its first external command.
\* mesh.py: return when <target>/Meshroom_photogrammetry exists, else wget.
\* new_mesh.py: wget only when the archive is missing, tar in any case.
ProvisionEnter ==
    /\ pc = "provision"
    /\ IF prog = "mesh"
       THEN IF tree = "root"
            THEN dl' = "returned" /\ Goto("ffmpeg")
            ELSE dl' = "called" /\ Goto("wget")
       ELSE dl' = "called" /\ Goto(IF tgz = "absent" THEN "wget" ELSE "tar")
    /\ UNCHANGED <<procv, cmdv, argv, gpuv, framev, tgz, tree, xbit, prev_dl, miscv, envv, collv, convv, sidev>>

WgetStart ==
    /\ pc = "wget"
    /\ Launch("wget")
    /\ UNCHANGED <<procv, ctlv, argv, gpuv, framev, toolv, miscv, envv, collv, convv, sidev>>

\* wget -O writes the archive file whether or not the download completes
WgetExit ==
    /\ pc = "wget"
    /\ \E k \in ExitCodes :
          /\ Reap(k)
          /\ tgz' = (IF k = 0 THEN "complete" ELSE "partial")
          /\ IF k = 0
             THEN Goto("tar") /\ UNCHANGED dl
             ELSE Uncaught("wget") /\ dl' = "raised"
    /\ UNCHANGED <<procv, argv, gpuv, framev, tree, xbit, prev_dl, miscv, envv, collv, convv, sidev>>

TarStart ==
    /\ pc = "tar"
    /\ Launch("tar")
    /\ UNCHANGED <<procv, ctlv, argv, gpuv, framev, toolv, miscv, envv, collv, convv, sidev>>

\* what is on disk after unpacking layout l over tree t
Unpacked(t, l) ==
    IF "root" \in {t, l} THEN "root"
    ELSE IF "nested" \in {t, l} THEN "nested"
    ELSE IF "empty" \in {t, l} THEN "empty"
    ELSE "none"

\* whether the code finds the executable it then chmods.
\* mesh.py: (target_dir / "Meshroom_photogrammetry").chmod(0o755)
\* new_mesh.py: a Meshroom-* directory, then os.walk for the file
ExeLocated(t) == IF prog = "mesh" THEN t = "root" ELSE HasExe(t)

\* the executable download_meshroom located, relative to the directory it
\* returns: mesh.py looks at the top only, new_mesh.py takes the first hit of
\* os.walk, which visits the top before the subdirectories
ExeFound(p, t) ==
    IF t = "root" THEN <<"Meshroom_photogrammetry">>
    ELSE IF t = "nested" /\ p # "mesh" THEN <<"bin", "Meshroom_photogrammetry">>
    ELSE <<>>

\* build_photogrammetry_cmd: exe = meshroom_root / "Meshroom_photogrammetry"
CmdExe == <<"Meshroom_photogrammetry">>

\* tar exits; l is what it unpacked (all of the archive when k = 0, any
\* part of it when it failed), x the mode the archive gives the executable
TarExit ==
    /\ pc = "tar"
    /\ \E k \in ExitCodes, l \in Layouts, x \in BOOLEAN :
          /\ k = 0 => tgz = "complete"
          /\ HasExe(l) \/ x = xbit
          /\ Reap(k)
          /\ tree' = Unpacked(tree, l)
          /\ IF k # 0
             THEN /\ xbit' = (IF HasExe(l) THEN x ELSE xbit)
                  /\ Uncaught("tar")
                  /\ dl' = "raised"
             ELSE IF ExeLocated(tree')
             THEN /\ xbit' = TRUE
                  /\ dl' = "returned"
                  /\ Goto("ffmpeg")
             ELSE /\ xbit' = (IF HasExe(l) THEN x ELSE xbit)
                  /\ Uncaught("find_exe")
                  /\ dl' = "raised"
    /\ UNCHANGED <<procv, argv, gpuv, framev, tgz, prev_dl, miscv, envv, collv, convv, sidev>>

\* as with run(cmd, check=False): no exit code raises
RaisesNever(k) == FALSE

\* run(cmd) is subprocess.run(cmd, check=True): a non-zero exit code
\* raises CalledProcessError
Raises(k) == k # 0

\* extract_frames: run(["ffmpeg", "-y", "-i", video, "-vf", ..., pattern])
FfmpegStart ==
    /\ pc = "ffmpeg"
    /\ have_ffmpeg
    /\ Launch("ffmpeg")
    /\ ef' = "called"
    /\ made' = made \cup {"frames"}
    /\ UNCHANGED <<procv, ctlv, argv, gpuv, raw, unlinked, frames, toolv, envv, collv, convv, sidev>>
    /\ UNCHANGED <<collected, idx, have_ffmpeg, chain_dirs>>

\* ffmpeg is not installed: run raises FileNotFoundError, nothing catches it
FfmpegMissing ==
    /\ pc = "ffmpeg"
    /\ ~busy
    /\ ~have_ffmpeg
    /\ ef' = "raised"
    /\ made' = made \cup {"frames"}
    /\ Uncaught("ffmpeg_missing")
    /\ UNCHANGED <<procv, cmdv, argv, gpuv, raw, unlinked, frames, toolv, envv, collv, convv, sidev>>
    /\ UNCHANGED <<collected, idx, have_ffmpeg, chain_dirs>>

\* as with max_frames > 1
CapAppliesAboveOne(m) == m > 1

\* the cap is applied only for max_frames > 0
CapApplies(m) == m > 0

\* as with all_frames[max_frames + 1:]
CapVictimsOffByOne(S, m) ==
    LET all_frames == SortedFrames(S) IN
    IF CapApplies(m) /\ Len(all_frames) > m
    THEN {all_frames[i] : i \in (m + 2)..Len(all_frames)}
    ELSE {}

\* the frames the cap deletes: all_frames[max_frames:] of the sorted glob
CapVictims(S, m) ==
    LET all_frames == SortedFrames(S) IN
    IF CapApplies(m) /\ Len(all_frames) > m
    THEN {all_frames[i] : i \in (m + 1)..Len(all_frames)}
    ELSE {}

\* ffmpeg wrote frame_000001..frame_00000n over what the directory held and
\* exits (a run that ends with code 0 wrote at least one frame); on exit 0
\* extract_frames goes on to cap and returns
FfmpegExit ==
    /\ pc = "ffmpeg"
    /\ \E k \in ExitCodes, n \in 0..MaxRaw :
          /\ k = 0 => n >= 1
          /\ Reap(k)
          /\ raw' = n
          /\ IF ~Raises(k)
             THEN /\ unlinked' = CapVictims(frames \cup (1..n), max_frames)
                  /\ frames' = (frames \cup (1..n)) \ unlinked'
                  /\ ef' = "returned"
                  /\ Goto("meshroom")
             ELSE /\ unlinked' = {}
                  /\ frames' = frames \cup (1..n)
                  /\ ef' = "raised"
                  /\ Uncaught("ffmpeg")
    /\ UNCHANGED <<procv, argv, gpuv, toolv, miscv, envv, collv, convv, sidev>>

\* build_photogrammetry_cmd: exe = meshroom_root / "Meshroom_photogrammetry"
CmdExeRunnable == tree = "root" /\ xbit

\* env[name] = value
Put(e, name, value) ==
    [n \in DOMAIN e \cup {name} |-> IF n = name THEN value ELSE e[n]]

\* env = os.environ.copy(); if gpu_ids: both device variables are set to
\* ",".join(gpu_ids)
BuildEnv(inh, ids) ==
    IF ids # <<>>
    THEN Put(Put(inh, "ALICEVISION_CUDA_DEVICES", Join(ids)),
             "CUDA_VISIBLE_DEVICES", Join(ids))
    ELSE inh

\* str(n) for n >= 0
DigitChars == <<"0", "1", "2", "3", "4", "5", "6", "7", "8", "9">>
Str(n) == [i \in DOMAIN Digits(n) |-> DigitChars[Digits(n)[i] + 1]]

\* mesh.py: env["OMP_NUM_THREADS"] = str(max(1, cpu_count() - 1));
\* new_mesh.py has no such assignment
ThreadHint(p, e, n) ==
    IF p = "mesh"
    THEN Put(e, "OMP_NUM_THREADS", Str(IF n - 1 > 1 THEN n - 1 ELSE 1))
    ELSE e

\* run(cmd, env=env)
MeshroomStart ==
    /\ pc = "meshroom"
    /\ CmdExeRunnable
    /\ Launch("meshroom")
    /\ env' = ThreadHint(prog, BuildEnv(inherited, gpu_ids), cpus)
    /\ UNCHANGED <<procv, ctlv, argv, gpuv, framev, toolv, miscv, cpus, inherited, collv, convv, sidev>>

\* the executable is missing or not executable: run raises an OSError,
\* which except subprocess.CalledProcessError does not catch
MeshroomLaunchError ==
    /\ pc = "meshroom"
    /\ ~busy
    /\ ~CmdExeRunnable
    /\ Uncaught("launch")
    /\ UNCHANGED <<procv, cmdv, argv, gpuv, framev, toolv, miscv, envv, collv, convv, sidev>>

\* the status main exits with when the reconstruction command exits k # 0:
\* mesh.py sys.exit(e.returncode), new_mesh.py sys.exit(1)
ReconstructionFailureCode(k) == IF prog = "mesh" THEN k ELSE 1

\* as with an except clause that removes the frames directory before it
\* exits
MeshroomExitCleaning ==
    /\ pc = "meshroom"
    /\ \E k \in ExitCodes :
          /\ Reap(k)
          /\ IF ~Raises(k)
             THEN Goto("collect") /\ UNCHANGED frames
             ELSE ExitWith(ReconstructionFailureCode(k), "meshroom") /\ frames' = {}
    /\ UNCHANGED <<procv, argv, gpuv, ef, raw, unlinked, toolv, miscv, envv, collv, convv, sidev>>

MeshroomExit ==
    /\ pc = "meshroom"
    /\ \E k \in ExitCodes :
          /\ Reap(k)
          /\ IF ~Raises(k)
             THEN Goto("collect")
             ELSE ExitWith(ReconstructionFailureCode(k), "meshroom")
    /\ UNCHANGED <<procv, argv, gpuv, framev, toolv, miscv, envv, collv, convv, sidev>>

\* cache_texturing.exists() and it has a subdirectory
HasNode(c) == c.exists /\ c.nodes # <<>>

\* latest = max(candidates, key=lambda p: p.stat().st_mtime)
LatestIdx(c) == Len(c.nodes)
Latest(c) == c.nodes[LatestIdx(c)]

\* mesh.py: "for f in latest.glob(pat): textured = f" keeps the file globbed
\* last, one per kind; glob yields in directory order, so it is any of them
OnePerKind(node) ==
    {S \in SUBSET FilesOf(node) :
        \A k \in Kinds :
            Cardinality({f \in S : f[1] = k}) = (IF node[k] = 0 THEN 0 ELSE 1)}

\* the sets of files a collection can copy, each file as <<node directory,
\* name>>: mesh.py copies the kept file of each kind, new_mesh.py every
\* globbed file
Copies(p, c) ==
    IF ~HasNode(c) THEN {{}}
    ELSE {{<<LatestIdx(c), f>> : f \in S} :
             S \in (IF p = "mesh" THEN OnePerKind(Latest(c))
                                 ELSE {FilesOf(Latest(c))})}

\* mesh.py prints "Could not find textured outputs ... Output JSON graph:
\* <path>" when it copied nothing; new_mesh.py prints "Done" in every case
NoOutputsWarning(p, S) == IF p = "mesh" /\ S = {} THEN "no_outputs" ELSE "none"

\* paths as sequences of components; the values of --workdir
Workdirs == {<<"home", "ubuntu", "meshjob">>, <<"job">>}

\* output_dir = workdir / "output"
OutputDir(w) == w \o <<"output">>

\* build_photogrammetry_cmd: "--cache", str(output_dir / "cache")
CacheArg(out) == out \o <<"cache">>

\* cache_texturing = output_dir / "MeshroomCache" / "Texturing"
CacheTexturing(out) == out \o <<"MeshroomCache", "Texturing">>

\* section 4 of main: copy2 the textured outputs of the latest node
\* directory to final/<name>, report, return
CollectArtifacts ==
    /\ pc = "collect"
    /\ \E S \in Copies(prog, cache) :
          /\ copied' = S
          /\ final' = final \cup {x[2] : x \in S}
          /\ said' = NoOutputsWarning(prog, S)
    /\ collected' = TRUE
    /\ ExitWith(0, "none")
    /\ UNCHANGED <<procv, log, busy, overlap, rc, argv, gpuv, framev, toolv, sidev>>
    /\ UNCHANGED <<idx, have_ffmpeg, chain_dirs, made, envv, cache, convv>>

\* ------------------------------- meshbackend/mesh.py and mesh_chain.py
\* run_colmap: six subprocess.run(..., check=True) calls, in this order
ColmapStages ==
    <<"feature_extractor", "exhaustive_matcher", "mapper",
      "image_undistorter", "patch_match_stereo", "stereo_fusion">>

\* mesh_chain.py under set -e: steps 1 to 8, one foreground command each
ChainCmds ==
    <<"rm_rf_scene", "mkdir_images", "cp_images", "rm_f_leftovers",
      "feature_extractor", "exhaustive_matcher", "mkdir_sparse", "mapper",
      "mkdir_text", "model_converter", "colmap2nerf", "sed", "train_export">>

Cmds(p) == IF p = "chain" THEN ChainCmds ELSE ColmapStages

\* DATASET_ROOT.rglob("r-*.ppm"): files at the top of the dataset and in
\* subdirectories, dir being the path below DATASET_ROOT
PpmFiles ==
    {[dir |-> d, stem |-> s, ext |-> "ppm"] :
        d \in {<<>>, <<"a">>, <<"a", "x">>, <<"b", "x">>}, s \in {"r-1", "r-2"}}

\* the stem of f"{prefix}_%06d.{fmt}" for prefix "frame" and index i
FrameStem(i) == <<"frame_">> \o FrameName(i)

\* input_dir.glob(ext) for ext in *.png, *.jpg, *.jpeg, *.bmp, *.tiff
FrameFiles ==
    {[dir |-> <<>>, stem |-> s, ext |-> e] :
        s \in {FrameStem(1), FrameStem(2)}, e \in {"png", "jpg", "bmp"}}

\* what the globs of a conversion can find
InputSets(p) ==
    {S \in SUBSET (IF p = "colmap" THEN PpmFiles ELSE FrameFiles) :
        Cardinality(S) <= MaxFiles}

\* ppm.parent.name
ParentName(f) == IF f.dir = <<>> THEN "basement_0001a" ELSE f.dir[Len(f.dir)]

\* the output file name: f"{ppm.parent.name}__{ppm.stem}.png" in
\* convert_single, f"{prefix}-{img_path.stem}.ppm" in convert_single_frame
OutName(p, f) ==
    IF p = "colmap" THEN <<ParentName(f), "__", f.stem, ".png">>
    ELSE <<"r", "-", f.stem, ".ppm">>

\* a pool thread takes the next submitted file
ConvertBegin ==
    /\ pc = "convert"
    /\ Cardinality(active) < MaxWorkers
    /\ \E f \in pending :
          /\ pending' = pending \ {f}
          /\ active' = active \cup {f}
    /\ UNCHANGED <<procv, ctlv, cmdv, argv, gpuv, framev, toolv, miscv, envv, collv, sidev>>
    /\ UNCHANGED <<inputs, corrupt, outdir>>

\* img.save(out_file): the file of that name now holds this input's image;
\* an input PIL cannot read raises, which the except clause turns into a
\* message
ConvertEnd ==
    /\ pc = "convert"
    /\ \E f \in active :
          /\ active' = active \ {f}
          /\ outdir' = (IF f \in corrupt THEN outdir
                                         ELSE Put(outdir, OutName(prog, f), f))
    /\ UNCHANGED <<procv, ctlv, cmdv, argv, gpuv, framev, toolv, miscv, envv, collv, sidev>>
    /\ UNCHANGED <<inputs, corrupt, pending>>

\* convert_frames_to_ppm returns: False when the globs found nothing, True
\* once the pool is done
ConvertFramesReturn ==
    /\ pc = "convert"
    /\ prog = "video_to_frames"
    /\ pending = {}
    /\ active = {}
    /\ Goto(IF inputs = {} THEN "convert_false" ELSE "convert_true")
    /\ UNCHANGED <<procv, cmdv, argv, gpuv, framev, toolv, miscv, envv, collv, convv, sidev>>

\* ------------------------- video_to_frames.py: process_video_to_ppm
ImageExts == {"png", "jpg", "jpeg", "bmp", "tiff"}
Formats == {"ppm", "png", "jpg"}

\* the files ffmpeg writes for n frames in format fm
Written(n, fm) == {[dir |-> <<>>, stem |-> FrameStem(i), ext |-> fm] : i \in 1..n}

\* what the five globs of convert_frames_to_ppm find among files
Globbed(files) == {f \in files : f.ext \in ImageExts}

\* what temp_frames can hold when the process starts
StaleTemps ==
    {NoTemp} \cup
    {[exists |-> TRUE, files |-> S] :
        S \in SUBSET {[dir |-> <<>>, stem |-> FrameStem(1), ext |-> e] : e \in {"png", "jpg"}}}

\* as without "if not self.extract_frames(...): return False"
AfterExtractUngated(ok) == "convert"

\* process_video_to_ppm goes on to the conversion only when extract_frames
\* returned True
AfterExtract(ok) == IF ok THEN "convert" ELSE "exited"

\* extract_frames returns ok to process_video_to_ppm; on True the caller
\* enters convert_frames_to_ppm, which globs files and submits what it found
ExtractReturns(ok, files) ==
    /\ ef' = (IF ok THEN "returned" ELSE "false")
    /\ pc' = AfterExtract(ok)
    /\ ret' = (IF pc' = "exited" THEN "False" ELSE "none")
    /\ IF pc' = "convert"
       THEN /\ inputs' = Globbed(files)
            /\ corrupt' \in {S \in SUBSET inputs' : Cardinality(S) <= 1}
            /\ pending' = inputs'
       ELSE UNCHANGED <<inputs, corrupt, pending>>
    /\ UNCHANGED <<exit_code, fail_at, active, outdir, fmt>>

\* extract_frames: check_ffmpeg() fails or the video is missing
ExtractRefuses ==
    /\ pc = "v_extract"
    /\ ~busy
    /\ ~have_ffmpeg \/ ~video_exists
    /\ ExtractReturns(FALSE, temp.files)
    /\ UNCHANGED <<procv, cmdv, argv, gpuv, raw, unlinked, frames, toolv, miscv, envv, collv, chainv, pollv, appv, temp>>

\* extract_frames: output_dir.mkdir, then subprocess.run(cmd, check=True)
VideoFfmpegStart ==
    /\ pc = "v_extract"
    /\ have_ffmpeg
    /\ video_exists
    /\ Launch("ffmpeg")
    /\ ef' = "called"
    /\ temp' = [temp EXCEPT !.exists = TRUE]
    /\ UNCHANGED <<procv, ctlv, argv, gpuv, raw, unlinked, frames, toolv, miscv, envv, collv, chainv, pollv, appv, convv>>
    /\ UNCHANGED <<fmt, ret>>

\* ffmpeg wrote n frames into temp_frames and exits with code k;
\* CalledProcessError makes extract_frames return False
VideoFfmpegExit ==
    /\ pc = "v_extract"
    /\ \E k \in ExitCodes, n \in 0..MaxRaw :
          /\ k = 0 => n >= 1
          /\ Reap(k)
          /\ raw' = n
          /\ temp' = [temp EXCEPT !.files = temp.files \cup Written(n, fmt)]
          /\ ExtractReturns(~Raises(k), temp'.files)
    /\ UNCHANGED <<procv, argv, gpuv, unlinked, frames, toolv, miscv, envv, collv, chainv, pollv, appv>>

\* convert_frames_to_ppm returned False: return False
ConvertRefused ==
    /\ pc = "convert_false"
    /\ pc' = "exited"
    /\ ret' = "False"
    /\ UNCHANGED <<procv, exit_code, fail_at, cmdv, argv, gpuv, framev, toolv, miscv, envv, collv, chainv, pollv, appv, convv>>
    /\ UNCHANGED <<temp, fmt>>

\* both steps returned True: shutil.rmtree(temp_dir, ignore_errors=True),
\* return True
CleanUpTemp ==
    /\ pc = "convert_true"
    /\ temp' = NoTemp
    /\ pc' = "exited"
    /\ ret' = "True"
    /\ UNCHANGED <<procv, exit_code, fail_at, cmdv, argv, gpuv, framev, toolv, miscv, envv, collv, chainv, pollv, appv, convv>>
    /\ UNCHANGED fmt

\* convert_ppm_to_png() returns None whatever it found or converted
ConvertPpm ==
    /\ pc = "convert"
    /\ prog = "colmap"
    /\ pending = {}
    /\ active = {}
    /\ Goto("stage")
    /\ UNCHANGED <<procv, cmdv, argv, gpuv, framev, toolv, miscv, envv, collv, convv, sidev>>

\* as with the COLMAP test left out
InputsOkImagesOnly(i, c) == i

\* [ -d "$IMAGES_DIR" ] and [ -f "$COLMAP_EXE" ]
InputsOk(i, c) == i /\ c

\* mesh_chain.py up to step 1: the two input checks, each exit 1, then
\* cd "$NGP_DIR", which under set -e ends the script with cd's status 1
CheckInputs ==
    /\ pc = "chain_check"
    /\ IF ~InputsOk(images_ok, colmap_ok) THEN ExitWith(1, "inputs")
       ELSE IF ~ngp_ok THEN ExitWith(1, "cd")
       ELSE Goto("stage")
    /\ UNCHANGED <<procv, cmdv, argv, gpuv, framev, toolv, miscv, envv, collv, convv, sidev>>

StageStart ==
    /\ pc = "stage"
    /\ idx <= Len(Cmds(prog))
    /\ Launch(Cmds(prog)[idx])
    /\ UNCHANGED <<procv, ctlv, argv, gpuv, framev, toolv, miscv, envv, collv, convv, sidev>>

\* the exit codes command c can give: rm -f without -r fails on a directory
CanExit(c, k) == (c = "rm_f_leftovers" /\ chain_dirs) => k # 0

\* data/$SCENE_NAME after command c exited with k: rm -rf removes it,
\* mkdir -p data/$SCENE_NAME/images creates it
SceneAfter(sc, c, k) ==
    IF c = "rm_rf_scene" /\ k = 0 THEN FALSE
    ELSE IF c = "mkdir_images" /\ k = 0 THEN TRUE
    ELSE sc

\* the file colmap.db after command c exited with k: rm -f unlinks it, also
\* when it then fails on a directory; feature_extractor creates it
DbAfter(d, c, k) ==
    IF c = "rm_f_leftovers" THEN FALSE
    ELSE IF c = "feature_extractor" /\ k = 0 THEN TRUE
    ELSE d

\* check=True raises CalledProcessError, uncaught: exit 1; set -e exits
\* with the failed command's status
StageFailureCode(k) == IF prog = "chain" THEN k ELSE 1

\* as with check=False, or without set -e: the exit code is ignored
StageAfterUnchecked(i, k) == i + 1

\* the position after the command at position i exited with code k
StageAfter(i, k) == IF k = 0 THEN i + 1 ELSE i

StageExit ==
    /\ pc = "stage"
    /\ log # <<>>
    /\ \E k \in ExitCodes :
          LET c == log[Len(log)] IN
          /\ CanExit(c, k)
          /\ Reap(k)
          /\ idx' = StageAfter(idx, k)
          /\ chain_dirs' = (chain_dirs \/ (k = 0 /\ c \in {"mkdir_sparse", "mkdir_text"}))
          /\ scene' = SceneAfter(scene, c, k)
          /\ db' = DbAfter(db, c, k)
          /\ IF idx' = idx
             THEN ExitWith(StageFailureCode(k), c)
             ELSE IF idx' > Len(Cmds(prog))
             THEN ExitWith(0, "none")
             ELSE Goto("stage")
    /\ UNCHANGED <<procv, argv, gpuv, framev, toolv, collected, have_ffmpeg, made, envv, collv, convv, vidv, pollv, appv>>
    /\ UNCHANGED <<images_ok, colmap_ok, ngp_ok>>

\* --------------------------- aws_code/poller.py, lambda_poller.py
Pollers == {"poller", "lambda_poller"}

\* str.lower on the letters the names use
Lower(c) ==
    CASE c = "B" -> "b" [] c = "M" -> "m" [] c = "O" -> "o" [] c = "V" -> "v"
      [] OTHER -> c
LowerAll(n) == [i \in DOMAIN n |-> Lower(n[i])]

\* n.endswith(suffix)
EndsWith(n, suffix) ==
    /\ Len(suffix) <= Len(n)
    /\ SubSeq(n, Len(n) - Len(suffix) + 1, Len(n)) = suffix

\* key.lower().endswith((".mov", ".mp4"))
IsVideo(n) ==
    \/ EndsWith(LowerAll(n), <<".", "m", "o", "v">>)
    \/ EndsWith(LowerAll(n), <<".", "m", "p", "4">>)

\* the orders in which a listing of S can come: list_objects_v2 returns the
\* keys in their binary order, os.listdir in arbitrary order
Orderings(p, S) ==
    {q \in UNION {[1..Cardinality(S) -> S]} :
        /\ \A i, j \in DOMAIN q : i # j => q[i] # q[j]
        /\ p = "poller" =>
              \A i, j \in DOMAIN q : i < j =>
                  \E a, b \in DOMAIN KeyOrder : a < b /\ KeyOrder[a] = q[i] /\ KeyOrder[b] = q[j]}

\* as with the name recorded only once its handling succeeded
SeenAfterSuccess(s, n, ok) == IF ok THEN s \cup {n} ELSE s

\* seen_files.add(key) / seen.add(fname), before anything is attempted
SeenAfter(s, n, ok) == s \cup {n}

\* one listing: new names may have arrived since the last one. poller.py
\* catches a failed listing and sleeps; lambda_poller.py has no handler
\* around os.listdir
Listing ==
    /\ \E S \in SUBSET Names, ok \in BOOLEAN :
          /\ present \subseteq S
          /\ present' = S
          /\ IF ok
             THEN todo' \in Orderings(prog, S) /\ Goto(IF S = {} THEN "poll" ELSE "scan")
             ELSE /\ todo' = <<>>
                  /\ IF prog = "poller" THEN Goto("poll") ELSE Uncaught("listdir")
    /\ UNCHANGED <<procv, cmdv, argv, gpuv, framev, toolv, miscv, envv, collv, convv, vidv, chainv, appv>>
    /\ UNCHANGED <<seen, attempts, delivered, cur, ply, narr>>

\* the top of while True, for the first MaxCycles iterations
PollList ==
    /\ prog \in Pollers
    /\ pc = "poll"
    /\ cycles < MaxCycles
    /\ cycles' = cycles + 1
    /\ Listing

\* the top of while True in every later iteration: the loop has no end
PollListOn ==
    /\ prog \in Pollers
    /\ pc = "poll"
    /\ cycles = MaxCycles
    /\ UNCHANGED cycles
    /\ Listing

\* the for loop's position once the body is done with a name
LoopPc(rest) == IF rest = <<>> THEN "poll" ELSE "scan"

\* as with process_video called only after the placeholder was uploaded
AfterPlyGated(okp, rest) == IF okp THEN "narrate" ELSE LoopPc(rest)

\* lambda_poller.py: the except clause around the placeholder upload only
\* prints; process_video is called in either case
AfterPly(okp, rest) == "narrate"

\* one iteration of the for loop. A new video name is recorded and handled:
\* poller.py downloads and copies it, and an exception leaves the loop for
\* this cycle; lambda_poller.py uploads the placeholder, catching a failure,
\* and calls process_video
PollHandle ==
    /\ prog \in Pollers
    /\ pc = "scan"
    /\ LET n == Head(todo) IN
       \E ok \in BOOLEAN :
          IF IsVideo(n) /\ n \notin seen
          THEN /\ seen' = SeenAfter(seen, n, ok)
               /\ attempts' = [attempts EXCEPT ![n] = @ + 1]
               /\ IF prog = "poller"
                  THEN /\ delivered' = (IF ok THEN delivered \cup {n} ELSE delivered)
                       /\ todo' = (IF ok THEN Tail(todo) ELSE <<>>)
                       /\ Goto(LoopPc(todo'))
                       /\ UNCHANGED <<cur, ply>>
                  ELSE /\ ply' = (IF ok THEN ply \cup {n} ELSE ply)
                       /\ cur' = n
                       /\ todo' = Tail(todo)
                       /\ Goto(AfterPly(ok, todo'))
                       /\ UNCHANGED delivered
          ELSE /\ ok
               /\ todo' = Tail(todo)
               /\ Goto(LoopPc(todo'))
               /\ UNCHANGED <<seen, attempts, delivered, cur, ply>>
    /\ UNCHANGED <<procv, cmdv, argv, gpuv, framev, toolv, miscv, envv, collv, convv, vidv, chainv, appv>>
    /\ UNCHANGED <<cycles, present, narr>>

\* the states of a file at Gemini, and how one can have moved on between
\* two looks at it: ACTIVE and FAILED are final
GStates == {"PROCESSING", "ACTIVE", "FAILED"}
GNext(g) == IF g = "PROCESSING" THEN GStates ELSE {g}

\* process_video returns to main's for loop, having told what it did
ProcessVideoReturns(done) ==
    /\ delivered' = (IF done THEN delivered \cup {cur} ELSE delivered)
    /\ cur' = <<>>
    /\ Goto(LoopPc(todo))

\* process_video: genai.upload_file(video_path); an exception is caught
\* by the function's except clause, which prints and returns
NarrateUpload ==
    /\ pc = "narrate"
    /\ narr' = narr \cup {cur}
    /\ \E ok \in BOOLEAN :
          IF ok
          THEN /\ gstate' \in GStates
               /\ fstate' = gstate'
               /\ pc' = "n_wait"
               /\ UNCHANGED <<exit_code, fail_at, delivered, cur>>
          ELSE ProcessVideoReturns(FALSE) /\ UNCHANGED <<gstate, fstate>>
    /\ UNCHANGED <<procv, cmdv, argv, gpuv, framev, toolv, miscv, envv, collv, convv, vidv, chainv>>
    /\ UNCHANGED <<seen, attempts, todo, cycles, present, ply>>
    /\ UNCHANGED <<route, tmp, rm_tried, elapsed, timeout_s, wout, resp>>

\* process_video: while myfile.state.name != "ACTIVE": sleep(2), get_file.
\* raises says whether this get_file raised
NarrateWait(raises) ==
    /\ pc = "n_wait"
    /\ IF fstate = "ACTIVE"
       THEN /\ ~raises
            /\ pc' = "n_generate"
            /\ UNCHANGED <<exit_code, fail_at, delivered, cur, gstate, fstate>>
       ELSE IF raises
       THEN ProcessVideoReturns(FALSE) /\ UNCHANGED <<gstate, fstate>>
       ELSE /\ gstate' \in GNext(gstate)
            /\ fstate' = gstate'
            /\ UNCHANGED <<ctlv, delivered, cur>>
    /\ UNCHANGED <<procv, cmdv, argv, gpuv, framev, toolv, miscv, envv, collv, convv, vidv, chainv>>
    /\ UNCHANGED <<seen, attempts, todo, cycles, present, ply, narr>>
    /\ UNCHANGED <<route, tmp, rm_tried, elapsed, timeout_s, wout, resp>>

\* process_video: generate_content, write the narration file, upload it to
\* the bucket; any exception is caught, printed, and the function returns
NarrateFinish ==
    /\ pc = "n_generate"
    /\ \E ok \in BOOLEAN : ProcessVideoReturns(ok)
    /\ UNCHANGED <<procv, cmdv, argv, gpuv, framev, toolv, miscv, envv, collv, convv, vidv, chainv, appv>>
    /\ UNCHANGED <<seen, attempts, todo, cycles, present, ply, narr>>

\* ------------------------------------------------------ VAPI/app.py
\* as with the removal in the success path only, not in a finally clause
CleansOnSuccess(r) == r = "ok"

\* start_narration_upload: try ... finally: os.remove(tmp_path)
Cleans(r) == TRUE

\* the route's try block ends with result or error r: the upload route goes
\* through its finally clause, the path route is done
RouteEnds(r) ==
    /\ resp' = r
    /\ Goto(IF route = "upload" /\ Cleans(r) THEN "a_finally" ELSE "exited")

\* start_narration_upload: NamedTemporaryFile(delete=False), tmp.write. A
\* write that raises leaves the file behind, before the try block
RouteSave ==
    /\ pc = "a_save"
    /\ \E ok \in BOOLEAN :
          IF ok
          THEN tmp' = "written" /\ Goto("a_summarize") /\ UNCHANGED resp
          ELSE tmp' = "partial" /\ resp' = "write_raised" /\ Goto("exited")
    /\ UNCHANGED <<procv, cmdv, argv, gpuv, framev, toolv, miscv, envv, collv, convv, vidv, chainv, pollv>>
    /\ UNCHANGED <<route, rm_tried, gstate, fstate, elapsed, timeout_s, wout>>

\* summarize_video_with_gemini_file: os.path.isfile, genai.upload_file, and
\* the first line of _wait_for_gemini_file_active, start = time.time()
SummarizeUpload ==
    /\ pc = "a_summarize"
    /\ IF route = "path" /\ ~video_exists
       THEN RouteEnds("FileNotFoundError") /\ UNCHANGED <<gstate, fstate>>
       ELSE \E ok \in BOOLEAN :
               IF ok
               THEN /\ gstate' \in GStates
                    /\ fstate' = gstate'
                    /\ Goto("a_wait")
                    /\ UNCHANGED resp
               ELSE RouteEnds("upload_raised") /\ UNCHANGED <<gstate, fstate>>
    /\ elapsed' = 0
    /\ UNCHANGED <<procv, cmdv, argv, gpuv, framev, toolv, miscv, envv, collv, convv, vidv, chainv, pollv>>
    /\ UNCHANGED <<route, tmp, rm_tried, timeout_s, wout>>

\* as with FAILED taken for a state to return with
WaitOutcomeLenient(st) == IF st \in {"ACTIVE", "FAILED"} THEN "returned" ELSE "none"

\* _wait_for_gemini_file_active, after get_file: return on ACTIVE, raise
\* RuntimeError on FAILED, else sleep
WaitOutcome(st) ==
    IF st = "ACTIVE" THEN "returned"
    ELSE IF st = "FAILED" THEN "RuntimeError"
    ELSE "none"

\* one turn of the while loop of _wait_for_gemini_file_active: the test of
\* the time, get_file (raises says whether it raised), the two tests of
\* the state, sleep(1). d is the time the turn took beyond the sleep
WaitPoll(raises) ==
    /\ pc = "a_wait"
    /\ IF elapsed >= timeout_s
       THEN /\ ~raises
            /\ wout' = "TimeoutError"
            /\ RouteEnds("TimeoutError")
            /\ UNCHANGED <<gstate, fstate, elapsed>>
       ELSE IF raises
       THEN /\ wout' = "raised"
            /\ RouteEnds("get_file_raised")
            /\ UNCHANGED <<gstate, fstate, elapsed>>
       ELSE /\ gstate' \in GNext(gstate)
            /\ fstate' = gstate'
            /\ wout' = WaitOutcome(fstate')
            /\ CASE wout' = "returned" -> Goto("a_generate") /\ UNCHANGED <<resp, elapsed>>
                 [] wout' = "RuntimeError" -> RouteEnds("RuntimeError") /\ UNCHANGED elapsed
                 [] OTHER -> /\ \E d \in 0..1 : elapsed' = elapsed + 1 + d
                             /\ UNCHANGED <<ctlv, resp>>
    /\ UNCHANGED <<procv, cmdv, argv, gpuv, framev, toolv, miscv, envv, collv, convv, vidv, chainv, pollv>>
    /\ UNCHANGED <<route, tmp, rm_tried, timeout_s>>

\* summarize_video_with_gemini_file: generate_content and the text, with
\* the stock sentence for an empty one
Generate ==
    /\ pc = "a_generate"
    /\ \E ok \in BOOLEAN :
          IF ok THEN Goto("a_vapi") /\ UNCHANGED resp
          ELSE RouteEnds("generate_raised")
    /\ UNCHANGED <<procv, cmdv, argv, gpuv, framev, toolv, miscv, envv, collv, convv, vidv, chainv, pollv>>
    /\ UNCHANGED <<route, tmp, rm_tried, gstate, fstate, elapsed, timeout_s, wout>>

\* what the session request can come to: requests.post raises, a status of
\* 400 or more, or a JSON object with the id under one of three keys or
\* under none
VapiAnswers == {"post_raised", "status_400", "id", "_id", "sessionId", "no_id"}

\* vapi_create_session and the route's look at the session id
VapiResult(a) ==
    CASE a = "post_raised" -> "post_raised"
      [] a = "status_400" -> "http_502"
      [] a = "no_id" -> "http_500"
      [] OTHER -> "ok"

VapiCreate ==
    /\ pc = "a_vapi"
    /\ \E a \in VapiAnswers : RouteEnds(VapiResult(a))
    /\ UNCHANGED <<procv, cmdv, argv, gpuv, framev, toolv, miscv, envv, collv, convv, vidv, chainv, pollv>>
    /\ UNCHANGED <<route, tmp, rm_tried, gstate, fstate, elapsed, timeout_s, wout>>

\* finally: try: os.remove(tmp_path) except Exception: pass. The result or
\* error of the try block is what the route ends with
RouteFinally ==
    /\ pc = "a_finally"
    /\ rm_tried' = TRUE
    /\ \E ok \in BOOLEAN : tmp' = (IF ok THEN "removed" ELSE tmp)
    /\ Goto("exited")
    /\ UNCHANGED <<procv, cmdv, argv, gpuv, framev, toolv, miscv, envv, collv, convv, vidv, chainv, pollv>>
    /\ UNCHANGED <<route, gstate, fstate, elapsed, timeout_s, wout, resp>>

\* ------------------------------------------------------ specification
Init ==
    /\ prog \in Progs
    /\ run_no = 0
    /\ pc = "idle"
    /\ exit_code = 0
    /\ fail_at = "none"
    /\ log = <<>>
    /\ busy = FALSE
    /\ overlap = FALSE
    /\ rc = 0
    /\ video_exists = TRUE
    /\ max_frames = 1
    /\ gpus = Auto
    /\ detect_calls = 0
    /\ detect_how = "none"
    /\ detected = <<>>
    /\ gpu_ids = <<>>
    /\ dl = "none"
    /\ ef = "none"
    /\ raw = 0
    /\ unlinked = {}
    /\ collected = FALSE
    /\ idx = 1
    /\ frames = {}
    /\ tgz = "absent"
    /\ tree = "none"
    /\ xbit = FALSE
    /\ have_ffmpeg \in (IF prog \in Meshroom THEN BOOLEAN ELSE {TRUE})
    /\ chain_dirs = FALSE
    /\ prev_dl = NoDl
    /\ said = "none"
    /\ cpus = 1
    /\ inherited = <<>>
    /\ env = <<>>
    /\ cache = NoCache
    /\ final = {}
    /\ copied = {}
    /\ inputs = {}
    /\ corrupt = {}
    /\ pending = {}
    /\ active = {}
    /\ outdir = <<>>
    /\ temp = NoTemp
    /\ fmt = "ppm"
    /\ ret = "none"
    /\ made = {}
    /\ images_ok = TRUE
    /\ colmap_ok = TRUE
    /\ ngp_ok = TRUE
    /\ scene = FALSE
    /\ db = FALSE
    /\ seen = {}
    /\ attempts = [n \in Names |-> 0]
    /\ todo = <<>>
    /\ cycles = 0
    /\ present = {}
    /\ delivered = {}
    /\ cur = <<>>
    /\ ply = {}
    /\ narr = {}
    /\ route = "none"
    /\ tmp = "none"
    /\ rm_tried = FALSE
    /\ gstate = "none"
    /\ fstate = "none"
    /\ elapsed = 0
    /\ timeout_s = 0
    /\ wout = "none"
    /\ resp = "none"

Next ==
    \/ StartRun
    \/ CheckVideo
    \/ AptUpdateStart
    \/ AptUpdateExit
    \/ AptInstallStart
    \/ AptInstallExit
    \/ FfmpegVersionStart
    \/ FfmpegVersionExit
    \/ FfmpegVersionMissing
    \/ DetectAbsent
    \/ DetectStart
    \/ DetectExit
    \/ ProvisionEnter
    \/ WgetStart
    \/ WgetExit
    \/ TarStart
    \/ TarExit
    \/ FfmpegStart
    \/ FfmpegMissing
    \/ FfmpegExit
    \/ MeshroomStart
    \/ MeshroomLaunchError
    \/ MeshroomExit
    \/ CollectArtifacts
    \/ ConvertPpm
    \/ StageStart
    \/ StageExit

Spec == Init /\ [][Next]_vars

\* -------------------------- from the reconstruction command to the end
\* main after extract_frames has returned, in the first run on a working
\* directory: the environment the process inherited, the accelerator set,
\* the unpacked toolchain and what the tool will leave in the texturing
\* cache are drawn from bounded sets
ReconInit ==
    /\ prog \in Meshroom
    /\ run_no = 1
    /\ pc = "meshroom"
    /\ exit_code = 0
    /\ fail_at = "none"
    /\ log = <<"apt_update", "apt_install", "ffmpeg_version", "nvidia_smi",
               "wget", "tar", "ffmpeg">>
    /\ busy = FALSE
    /\ overlap = FALSE
    /\ rc = 0
    /\ said = "none"
    /\ video_exists = TRUE
    /\ max_frames = MaxCap
    /\ gpus = Auto
    /\ detect_calls = 1
    /\ detect_how = "ok"
    /\ detected \in GpuSets
    /\ gpu_ids = detected
    /\ dl = "returned"
    /\ ef = "returned"
    /\ raw = MaxCap
    /\ unlinked = {}
    /\ frames = 1..raw
    /\ collected = FALSE
    /\ idx = 1
    /\ tgz = "complete"
    /\ tree \in (IF prog = "mesh" THEN {"root"} ELSE {"root", "nested"})
    /\ xbit = TRUE
    /\ have_ffmpeg = TRUE
    /\ chain_dirs = FALSE
    /\ prev_dl = NoDl
    /\ cpus \in 1..MaxCpus
    /\ inherited \in InheritedEnvs
    /\ env = <<>>
    /\ cache \in CacheStates
    /\ final = {}
    /\ copied = {}
    /\ inputs = {}
    /\ corrupt = {}
    /\ pending = {}
    /\ active = {}
    /\ outdir = <<>>
    /\ temp = NoTemp
    /\ fmt = "ppm"
    /\ ret = "none"
    /\ made = MainDirs(prog) \cup {"frames"}
    /\ images_ok = TRUE
    /\ colmap_ok = TRUE
    /\ ngp_ok = TRUE
    /\ scene = FALSE
    /\ db = FALSE
    /\ seen = {}
    /\ attempts = [n \in Names |-> 0]
    /\ todo = <<>>
    /\ cycles = 0
    /\ present = {}
    /\ delivered = {}
    /\ cur = <<>>
    /\ ply = {}
    /\ narr = {}
    /\ route = "none"
    /\ tmp = "none"
    /\ rm_tried = FALSE
    /\ gstate = "none"
    /\ fstate = "none"
    /\ elapsed = 0
    /\ timeout_s = 0
    /\ wout = "none"
    /\ resp = "none"

ReconNext ==
    \/ MeshroomStart
    \/ MeshroomLaunchError
    \/ MeshroomExit
    \/ CollectArtifacts

ReconSpec == ReconInit /\ [][ReconNext]_vars

\* ------------------------------------------- the parallel conversions
\* convert_ppm_to_png (prog colmap) and convert_frames_to_ppm (prog
\* video_to_frames) after every file found was submitted to the pool; the
\* output directory is new
ConvInit ==
    /\ prog \in {"colmap", "video_to_frames"}
    /\ run_no = 1
    /\ pc = "convert"
    /\ exit_code = 0
    /\ fail_at = "none"
    /\ log = <<>>
    /\ busy = FALSE
    /\ overlap = FALSE
    /\ rc = 0
    /\ said = "none"
    /\ video_exists = TRUE
    /\ max_frames = 1
    /\ gpus = Auto
    /\ detect_calls = 0
    /\ detect_how = "none"
    /\ detected = <<>>
    /\ gpu_ids = <<>>
    /\ dl = "none"
    /\ ef = "none"
    /\ raw = 0
    /\ unlinked = {}
    /\ collected = FALSE
    /\ idx = 1
    /\ frames = {}
    /\ tgz = "absent"
    /\ tree = "none"
    /\ xbit = FALSE
    /\ have_ffmpeg = TRUE
    /\ chain_dirs = FALSE
    /\ prev_dl = NoDl
    /\ cpus = 1
    /\ inherited = <<>>
    /\ env = <<>>
    /\ cache = NoCache
    /\ final = {}
    /\ copied = {}
    /\ inputs \in InputSets(prog)
    /\ corrupt \in {S \in SUBSET inputs : Cardinality(S) <= 1}
    /\ pending = inputs
    /\ active = {}
    /\ outdir = <<>>
    /\ temp = NoTemp
    /\ fmt = "ppm"
    /\ ret = "none"
    /\ made = {}
    /\ images_ok = TRUE
    /\ colmap_ok = TRUE
    /\ ngp_ok = TRUE
    /\ scene = FALSE
    /\ db = FALSE
    /\ seen = {}
    /\ attempts = [n \in Names |-> 0]
    /\ todo = <<>>
    /\ cycles = 0
    /\ present = {}
    /\ delivered = {}
    /\ cur = <<>>
    /\ ply = {}
    /\ narr = {}
    /\ route = "none"
    /\ tmp = "none"
    /\ rm_tried = FALSE
    /\ gstate = "none"
    /\ fstate = "none"
    /\ elapsed = 0
    /\ timeout_s = 0
    /\ wout = "none"
    /\ resp = "none"

ConvNext ==
    \/ ConvertBegin
    \/ ConvertEnd
    \/ ConvertFramesReturn
    \/ ConvertPpm
    \/ StageStart
    \/ StageExit

ConvSpec == ConvInit /\ [][ConvNext]_vars

\* ------------------------------------------- process_video_to_ppm
\* video_to_frames.py --to-ppm: the call of process_video_to_ppm, with the
\* host, the video, --format and what an earlier run left in temp_frames
\* drawn from bounded sets
PpmInit ==
    /\ prog = "video_to_frames"
    /\ run_no = 1
    /\ pc = "v_extract"
    /\ exit_code = 0
    /\ fail_at = "none"
    /\ log = <<>>
    /\ busy = FALSE
    /\ overlap = FALSE
    /\ rc = 0
    /\ said = "none"
    /\ video_exists \in BOOLEAN
    /\ max_frames = 1
    /\ gpus = Auto
    /\ detect_calls = 0
    /\ detect_how = "none"
    /\ detected = <<>>
    /\ gpu_ids = <<>>
    /\ dl = "none"
    /\ ef = "none"
    /\ raw = 0
    /\ unlinked = {}
    /\ collected = FALSE
    /\ idx = 1
    /\ frames = {}
    /\ tgz = "absent"
    /\ tree = "none"
    /\ xbit = FALSE
    /\ have_ffmpeg \in BOOLEAN
    /\ chain_dirs = FALSE
    /\ prev_dl = NoDl
    /\ cpus = 1
    /\ inherited = <<>>
    /\ env = <<>>
    /\ cache = NoCache
    /\ final = {}
    /\ copied = {}
    /\ inputs = {}
    /\ corrupt = {}
    /\ pending = {}
    /\ active = {}
    /\ outdir = <<>>
    /\ temp \in StaleTemps
    /\ fmt \in Formats
    /\ ret = "none"
    /\ made = {}
    /\ images_ok = TRUE
    /\ colmap_ok = TRUE
    /\ ngp_ok = TRUE
    /\ scene = FALSE
    /\ db = FALSE
    /\ seen = {}
    /\ attempts = [n \in Names |-> 0]
    /\ todo = <<>>
    /\ cycles = 0
    /\ present = {}
    /\ delivered = {}
    /\ cur = <<>>
    /\ ply = {}
    /\ narr = {}
    /\ route = "none"
    /\ tmp = "none"
    /\ rm_tried = FALSE
    /\ gstate = "none"
    /\ fstate = "none"
    /\ elapsed = 0
    /\ timeout_s = 0
    /\ wout = "none"
    /\ resp = "none"

\* ------------------------------------------------- mesh_chain.py
\* one run of the shell pipeline, with its inputs and what earlier runs
\* left in the Instant-NGP directory drawn from bounded sets
ChainInit ==
    /\ prog = "chain"
    /\ run_no = 1
    /\ pc = "chain_check"
    /\ exit_code = 0
    /\ fail_at = "none"
    /\ log = <<>>
    /\ busy = FALSE
    /\ overlap = FALSE
    /\ rc = 0
    /\ said = "none"
    /\ video_exists = TRUE
    /\ max_frames = 1
    /\ gpus = Auto
    /\ detect_calls = 0
    /\ detect_how = "none"
    /\ detected = <<>>
    /\ gpu_ids = <<>>
    /\ dl = "none"
    /\ ef = "none"
    /\ raw = 0
    /\ unlinked = {}
    /\ collected = FALSE
    /\ idx = 1
    /\ frames = {}
    /\ tgz = "absent"
    /\ tree = "none"
    /\ xbit = FALSE
    /\ have_ffmpeg = TRUE
    /\ chain_dirs \in BOOLEAN
    /\ prev_dl = NoDl
    /\ cpus = 1
    /\ inherited = <<>>
    /\ env = <<>>
    /\ cache = NoCache
    /\ final = {}
    /\ copied = {}
    /\ inputs = {}
    /\ corrupt = {}
    /\ pending = {}
    /\ active = {}
    /\ outdir = <<>>
    /\ temp = NoTemp
    /\ fmt = "ppm"
    /\ ret = "none"
    /\ made = {}
    /\ images_ok \in BOOLEAN
    /\ colmap_ok \in BOOLEAN
    /\ ngp_ok \in BOOLEAN
    /\ scene \in BOOLEAN
    /\ db \in BOOLEAN
    /\ seen = {}
    /\ attempts = [n \in Names |-> 0]
    /\ todo = <<>>
    /\ cycles = 0
    /\ present = {}
    /\ delivered = {}
    /\ cur = <<>>
    /\ ply = {}
    /\ narr = {}
    /\ route = "none"
    /\ tmp = "none"
    /\ rm_tried = FALSE
    /\ gstate = "none"
    /\ fstate = "none"
    /\ elapsed = 0
    /\ timeout_s = 0
    /\ wout = "none"
    /\ resp = "none"

ChainNext ==
    \/ CheckInputs
    \/ StageStart
    \/ StageExit

ChainSpec == ChainInit /\ [][ChainNext]_vars

\* ------------------------------------------------------- the pollers
PollInit ==
    /\ prog \in Pollers
    /\ run_no = 1
    /\ pc = "poll"
    /\ exit_code = 0
    /\ fail_at = "none"
    /\ log = <<>>
    /\ busy = FALSE
    /\ overlap = FALSE
    /\ rc = 0
    /\ said = "none"
    /\ video_exists = TRUE
    /\ max_frames = 1
    /\ gpus = Auto
    /\ detect_calls = 0
    /\ detect_how = "none"
    /\ detected = <<>>
    /\ gpu_ids = <<>>
    /\ dl = "none"
    /\ ef = "none"
    /\ raw = 0
    /\ unlinked = {}
    /\ collected = FALSE
    /\ idx = 1
    /\ frames = {}
    /\ tgz = "absent"
    /\ tree = "none"
    /\ xbit = FALSE
    /\ have_ffmpeg = TRUE
    /\ chain_dirs = FALSE
    /\ prev_dl = NoDl
    /\ cpus = 1
    /\ inherited = <<>>
    /\ env = <<>>
    /\ cache = NoCache
    /\ final = {}
    /\ copied = {}
    /\ inputs = {}
    /\ corrupt = {}
    /\ pending = {}
    /\ active = {}
    /\ outdir = <<>>
    /\ temp = NoTemp
    /\ fmt = "ppm"
    /\ ret = "none"
    /\ made = {}
    /\ images_ok = TRUE
    /\ colmap_ok = TRUE
    /\ ngp_ok = TRUE
    /\ scene = FALSE
    /\ db = FALSE
    /\ seen = {}
    /\ attempts = [n \in Names |-> 0]
    /\ todo = <<>>
    /\ cycles = 0
    /\ present \in SUBSET Names
    /\ delivered = {}
    /\ cur = <<>>
    /\ ply = {}
    /\ narr = {}
    /\ route = "none"
    /\ tmp = "none"
    /\ rm_tried = FALSE
    /\ gstate = "none"
    /\ fstate = "none"
    /\ elapsed = 0
    /\ timeout_s = 0
    /\ wout = "none"
    /\ resp = "none"

PollNext ==
    \/ PollList
    \/ PollHandle
    \/ NarrateUpload
    \/ \E raises \in BOOLEAN : NarrateWait(raises)
    \/ NarrateFinish

PollSpec == PollInit /\ [][PollNext]_vars

\* the pollers as they run without end: while True has no exit, each
\* sleep returns and the loop goes on, a listing succeeds again and again,
\* and a transfer that is attempted again and again succeeds at some time.
\* Whether a call to Gemini raises is left to the service.
PollFairNext == PollNext \/ PollListOn

PollFairSpec ==
    /\ PollInit
    /\ [][PollFairNext]_vars
    /\ WF_vars(PollList \/ PollListOn)
    /\ SF_vars((PollList \/ PollListOn) /\ pc' # "exited" /\ todo' # <<>>)
    /\ WF_vars(PollHandle)
    /\ SF_vars(PollHandle /\ delivered' # delivered)
    /\ WF_vars(NarrateUpload)
    /\ WF_vars(NarrateWait(FALSE))
    /\ WF_vars(NarrateFinish)

\* ------------------------------------------------------- VAPI/app.py
\* one request to /start-narration or /start-narration-upload
AppInit ==
    /\ prog = "app"
    /\ run_no = 1
    /\ route \in {"path", "upload"}
    /\ pc = (IF route = "upload" THEN "a_save" ELSE "a_summarize")
    /\ exit_code = 0
    /\ fail_at = "none"
    /\ log = <<>>
    /\ busy = FALSE
    /\ overlap = FALSE
    /\ rc = 0
    /\ said = "none"
    /\ video_exists \in (IF route = "path" THEN BOOLEAN ELSE {TRUE})
    /\ max_frames = 1
    /\ gpus = Auto
    /\ detect_calls = 0
    /\ detect_how = "none"
    /\ detected = <<>>
    /\ gpu_ids = <<>>
    /\ dl = "none"
    /\ ef = "none"
    /\ raw = 0
    /\ unlinked = {}
    /\ collected = FALSE
    /\ idx = 1
    /\ frames = {}
    /\ tgz = "absent"
    /\ tree = "none"
    /\ xbit = FALSE
    /\ have_ffmpeg = TRUE
    /\ chain_dirs = FALSE
    /\ prev_dl = NoDl
    /\ cpus = 1
    /\ inherited = <<>>
    /\ env = <<>>
    /\ cache = NoCache
    /\ final = {}
    /\ copied = {}
    /\ inputs = {}
    /\ corrupt = {}
    /\ pending = {}
    /\ active = {}
    /\ outdir = <<>>
    /\ temp = NoTemp
    /\ fmt = "ppm"
    /\ ret = "none"
    /\ made = {}
    /\ images_ok = TRUE
    /\ colmap_ok = TRUE
    /\ ngp_ok = TRUE
    /\ scene = FALSE
    /\ db = FALSE
    /\ seen = {}
    /\ attempts = [n \in Names |-> 0]
    /\ todo = <<>>
    /\ cycles = 0
    /\ present = {}
    /\ delivered = {}
    /\ cur = <<>>
    /\ ply = {}
    /\ narr = {}
    /\ tmp = "none"
    /\ rm_tried = FALSE
    /\ gstate = "none"
    /\ fstate = "none"
    /\ elapsed = 0
    /\ timeout_s \in 1..MaxTimeout
    /\ wout = "none"
    /\ resp = "none"

AppNext ==
    \/ RouteSave
    \/ SummarizeUpload
    \/ \E raises \in BOOLEAN : WaitPoll(raises)
    \/ Generate
    \/ VapiCreate
    \/ RouteFinally

\* the request handler runs on until it has an answer
AppSpec == AppInit /\ [][AppNext]_vars /\ WF_vars(AppNext)

PpmNext ==
    \/ ExtractRefuses
    \/ VideoFfmpegStart
    \/ VideoFfmpegExit
    \/ ConvertBegin
    \/ ConvertEnd
    \/ ConvertFramesReturn
    \/ ConvertRefused
    \/ CleanUpTemp

PpmSpec == PpmInit /\ [][PpmNext]_vars

\* ------------------------------------------------------------- claims
Exited == pc = "exited"
Failed == Exited /\ exit_code # 0
Completed == Exited /\ exit_code = 0
Started(c) == \E i \in DOMAIN log : log[i] = c

\* the commands whose non-zero exit is fatal to the run
PipelineCmds == {ColmapStages[i] : i \in DOMAIN ColmapStages}
                    \cup {ChainCmds[i] : i \in DOMAIN ChainCmds}
FatalCmds == {"wget", "tar", "ffmpeg", "meshroom"} \cup PipelineCmds
Running == IF busy THEN log[Len(log)] ELSE "none"

\* C1: in every run of a pipeline, the step in which a fatal command exits
\* with a non-zero code puts the run in Failed; and from Failed, as long as
\* the same run lasts, the exit status does not change, no command is
\* started and artifact collection does not run.
C1_FailedIsAbsorbing ==
    [][/\ (Running \in FatalCmds /\ ~busy' /\ rc' # 0) => Failed'
       /\ (Failed /\ run_no' = run_no) =>
              UNCHANGED <<pc, exit_code, log, busy, collected>>]_vars

\* C1 witness: a run that failed at a fatal command before the last one
C1_Witness ==
    /\ Failed
    /\ fail_at \in FatalCmds
    /\ rc # 0
    /\ prog = "colmap"
    /\ Len(log) < Len(ColmapStages)

\* C2 as stated: a run that failed at the download, the unpack, the frame
\* extraction or the reconstruction command exits with that command's
\* code, and a completed run exits with 0.
C2_ExitCodeIsStageCode ==
    /\ (Exited /\ fail_at \in {"wget", "tar", "ffmpeg", "meshroom"}) => exit_code = rc
    /\ (Exited /\ fail_at = "none" /\ collected) => exit_code = 0

\* C3: in run_colmap and in the shell chain the commands started so far
\* are a prefix of the fixed list (each once, in order), none was started
\* while another was running, and a command is started only when no
\* command is running and the one before it exited with code 0.
C3_StagesSequential ==
    /\ [](prog \in {"colmap", "chain"} =>
             /\ ~overlap
             /\ Len(log) <= Len(Cmds(prog))
             /\ \A i \in DOMAIN log : log[i] = Cmds(prog)[i])
    /\ [][(prog \in {"colmap", "chain"} /\ run_no' = run_no /\ log' # log) =>
             (~busy /\ (log # <<>> => rc = 0))]_vars

\* C3 witness: run_colmap went through its six stages
C3_Witness ==
    /\ prog = "colmap"
    /\ log = ColmapStages
    /\ Completed

C5_NoDeletionBelowCap ==
    (ef = "returned" /\ max_frames >= raw) =>
        (unlinked = {} /\ Cardinality(frames) = raw)

C7_ProvisionIdempotent ==
    (prev_dl.ok /\ dl = "returned") =>
        /\ prev_dl.wget + Count("wget") <= 1
        /\ prev_dl.tar + Count("tar") <= 1
        /\ Count("wget") = 0
        /\ Count("tar") = 0

\* C8 as stated: when download_meshroom has returned the executable is on
\* disk with execute permission; when it raised, the run is Failed and
\* neither ffmpeg nor the reconstruction command was started.
C8_ProvisionGuarantee ==
    /\ dl = "returned" => (HasExe(tree) /\ xbit)
    /\ dl = "raised" => (Failed /\ ~Started("ffmpeg") /\ ~Started("meshroom"))

\* C9: detect_gpus returns the empty list on every error of the query and
\* never ends the run: once it was called the run is at provisioning or
\* later, and a run that failed failed at a later step.
C9_DetectNeverFails ==
    /\ detect_how \in {"absent", "nonzero", "undecodable"} => detected = <<>>
    /\ fail_at # "nvidia_smi"
    /\ detect_how # "none" =>
           /\ pc \in {"provision", "wget", "tar", "ffmpeg", "meshroom", "collect", "exited"}
           /\ Failed => fail_at \in {"wget", "tar", "find_exe", "ffmpeg",
                                     "ffmpeg_missing", "launch", "meshroom"}

\* C9 witness: the reconstruction runs although the detection tool is absent
C9_Witness ==
    /\ detect_how = "absent"
    /\ gpu_ids = <<>>
    /\ Running = "meshroom"

\* C10 as stated: under an explicit --gpus list the detection is not
\* called and the accelerator set is the list as given.
C10_ExplicitSkipsDetection ==
    (prog = "mesh" /\ gpus # Auto /\ pc # "idle") =>
        /\ detect_calls = 0
        /\ ~Started("nvidia_smi")
        /\ pc \in {"provision", "wget", "tar", "ffmpeg", "meshroom", "collect"} =>
               gpu_ids = Split(gpus, ",")

\* C15: the step in which the frame-extraction tool exits with a non-zero
\* code fails the run at frame extraction and deletes no frame file; and in
\* a run that failed there the cap deleted nothing, and neither the
\* reconstruction command nor the artifact collection was started.
C15_ExtractionFailureStops ==
    /\ [](fail_at = "ffmpeg" =>
             /\ Failed
             /\ unlinked = {}
             /\ ~Started("meshroom")
             /\ ~collected)
    /\ [][(Running = "ffmpeg" /\ ~busy' /\ rc' # 0) =>
             (Failed' /\ fail_at' = "ffmpeg" /\ frames \subseteq frames')]_vars

\* C15 witness: the extraction failed after writing more frames than the cap
C15_Witness ==
    /\ fail_at = "ffmpeg"
    /\ rc # 0
    /\ max_frames > 0
    /\ raw > max_frames
    /\ frames = 1..raw

\* C16: in a single run each fatal command (download, unpack, frame
\* extraction, the reconstruction command, each stage of run_colmap and of
\* the shell chain) is started at most once.
C16_NoRetry == \A c \in FatalCmds : Count(c) <= 1

\* C16 witness: a run that started all four fatal commands and failed at
\* the last of them
C16_Witness ==
    /\ prog = "mesh"
    /\ Failed
    /\ fail_at = "meshroom"
    /\ \A c \in {"wget", "tar", "ffmpeg", "meshroom"} : Count(c) = 1

\* C17: the reconstruction command is started only after detect_gpus has
\* returned and the accelerator set is decided, download_meshroom has
\* returned the toolchain path, and extract_frames (cap included) has
\* returned; and from its start to the end of the run the accelerator set,
\* the toolchain on disk and the frame files do not change.
C17_ReconstructionInputsFrozen ==
    /\ [](Started("meshroom") =>
             /\ detect_how # "none"
             /\ gpu_ids = DecideGpus(detected)
             /\ dl = "returned"
             /\ ef = "returned"
             /\ unlinked = CapVictims(frames \cup unlinked, max_frames))
    /\ [][(Started("meshroom") /\ run_no' = run_no) =>
             UNCHANGED <<gpu_ids, detected, dl, tgz, tree, xbit, ef, frames, unlinked>>]_vars

\* C17 witness: the reconstruction command exits, in a run that detected
\* accelerators, downloaded the toolchain and capped the frames
C17_Witness ==
    /\ Started("meshroom")
    /\ ~busy
    /\ gpu_ids # <<>>
    /\ Started("wget")
    /\ unlinked # {}

\* C11 as stated: the env handed to the reconstruction command holds both
\* device variables, set to the comma-joined accelerator set, when the set
\* is not empty, and neither of them when it is empty, whatever the
\* process inherited.
C11_EnvDeviceVars ==
    Started("meshroom") =>
        IF gpu_ids # <<>>
        THEN /\ CudaVars \subseteq DOMAIN env
             /\ \A v \in CudaVars : env[v] = Join(gpu_ids)
        ELSE DOMAIN env \cap CudaVars = {}

\* C12 as stated: for every state of the texturing cache a run that
\* reached the collection ends Completed with exit code 0, and when it
\* copied nothing it printed the warning that names the graph file.
C12_CollectionNeverFails ==
    collected =>
        /\ Completed
        /\ copied = {} => said = "no_outputs"

\* C13 as stated: after the collection every *.obj, *.mtl and *.png file
\* of the most recently modified node directory is in final/ under its
\* name, and every copied file came from that directory.
C13_AllLatestFilesCollected ==
    collected =>
        /\ HasNode(cache) => FilesOf(Latest(cache)) \subseteq final
        /\ \A x \in copied : x[1] = LatestIdx(cache)

\* the best-effort commands
AptCmds == {"apt_update", "apt_install"}

\* C14 as stated: the step in which apt-get update or apt-get install
\* exits with a non-zero code prints a warning and does not end the run,
\* which goes on to the ffmpeg check or to the detection; and no run fails
\* at an apt-get command.
C14_BestEffortLoggedNotFatal ==
    /\ [](Failed => fail_at \notin AptCmds)
    /\ [][(Running \in AptCmds /\ ~busy' /\ rc' # 0) =>
             /\ said' = "apt_failed"
             /\ pc' \in {"ffmpeg_version", "detect"}]_vars

\* C18: the artifact collection runs only when the reconstruction command
\* was the last command started and has exited with code 0; a run in which
\* it ran is not Failed; and once it ran, nothing is collected or copied
\* again in that run.
C18_CollectOnceAfterSuccess ==
    /\ [](collected =>
             /\ Count("meshroom") = 1
             /\ log[Len(log)] = "meshroom"
             /\ ~busy
             /\ rc = 0
             /\ ~Failed)
    /\ [][(collected' /\ ~collected) =>
             (pc = "collect" /\ Running = "none" /\ rc = 0)]_vars
    /\ [][(collected /\ run_no' = run_no) =>
             UNCHANGED <<collected, copied, final, pc>>]_vars

\* C18 witness: a completed run that collected after the reconstruction
C18_Witness ==
    /\ collected
    /\ Completed
    /\ Started("wget")
    /\ Started("meshroom")

\* C19: in a run that got past frame extraction, the step that fails the
\* run and every later step of that run leave the frame files, the
\* toolchain archive and tree, the texturing cache and final/ as they were.
C19_NoRollback ==
    [][(ef = "returned" /\ Failed' /\ run_no' = run_no) =>
          UNCHANGED <<frames, tgz, tree, xbit, cache, final>>]_vars

\* C19 witness: the reconstruction command failed and left a cache behind
C19_Witness ==
    /\ Failed
    /\ fail_at = "meshroom"
    /\ HasNode(cache)
    /\ FilesOf(Latest(cache)) # {}
    /\ frames # {}
    /\ tree = "root"

\* the pool is done with every file
ConversionDone == pending = {} /\ active = {}

\* C20 as stated: two different input files never have the same output
\* name, and when the pool is done the output file of every readable input
\* exists and holds that input's image, whatever the order in which the
\* workers ran.
C20_ConversionOrderIndependent ==
    ConversionDone =>
        /\ \A f, g \in inputs : f # g => OutName(prog, f) # OutName(prog, g)
        /\ \A f \in inputs \ corrupt :
               /\ OutName(prog, f) \in DOMAIN outdir
               /\ outdir[OutName(prog, f)] = f

\* C21 as stated: the env handed to the reconstruction command holds
\* OMP_NUM_THREADS, and its value is str(max(1, cpus - 1)).
C21_ThreadHint ==
    Started("meshroom") =>
        /\ "OMP_NUM_THREADS" \in DOMAIN env
        /\ env["OMP_NUM_THREADS"] = Str(IF cpus - 1 > 1 THEN cpus - 1 ELSE 1)

\* C22 as stated: run_colmap's first stage is started only after a
\* conversion that found input files and converted every one of them.
C22_ColmapGatedOnConversion ==
    (prog = "colmap" /\ Started("feature_extractor")) =>
        /\ inputs # {}
        /\ corrupt = {}

\* C23: process_video_to_ppm starts the conversion only after extract_frames
\* returned True, returns False as soon as either step returned False, and
\* removes temp_frames only in the step that returns True: on every failing
\* path the directory is left as it was.
C23_Converting == pc \in {"convert", "convert_true", "convert_false"} \/ active # {} \/ outdir # <<>>

C23_GatedSteps ==
    /\ [](/\ C23_Converting => ef = "returned"
          /\ ef = "false" => ret = "False" /\ pc = "exited"
          /\ ret = "True" => ef = "returned" /\ inputs # {} /\ ~temp.exists
          /\ ret = "False" /\ ef = "returned" => inputs = {} /\ temp.exists)
    /\ [][/\ pc = "convert_false" => ret' = "False"
          /\ temp.exists /\ ~temp'.exists => pc = "convert_true" /\ ret' = "True"
          /\ ret' = "False" => temp'.exists = (temp.exists \/ ef = "called")
                               /\ temp.files \subseteq temp'.files]_vars

C23_Witness ==
    /\ pc = "exited"
    /\ ret = "False"
    /\ ef = "returned"
    /\ temp.exists
    /\ temp.files # {}

C23_WitnessCleaned == ret = "True" /\ ~temp.exists /\ outdir # <<>>

\* C24: whenever process_video_to_ppm has returned True, every frame file the
\* extraction wrote has its PPM file in the output directory.
C24_EveryFrameConverted ==
    ret = "True" =>
        \A f \in Written(raw, fmt) :
            /\ OutName(prog, f) \in DOMAIN outdir
            /\ outdir[OutName(prog, f)] = f

\* C25: the directory the collector searches for textured outputs lies inside
\* the cache directory passed to the reconstruction command.
C25_Inside(a, b) == Len(b) <= Len(a) /\ SubSeq(a, 1, Len(b)) = b

C25_CollectorSearchesCache ==
    collected =>
        \A w \in Workdirs :
            C25_Inside(CacheTexturing(OutputDir(w)), CacheArg(OutputDir(w)))

\* C26: once provisioning has returned, the executable path the
\* reconstruction command is built with is the path provisioning located,
\* for every archive layout provisioning accepts.
C26_CommandUsesLocatedExe ==
    dl = "returned" => CmdExe = ExeFound(prog, tree)

\* C27: a run of an orchestrator whose source video does not exist ends with
\* exit code 1 at the video check, before any side effect: it created no
\* directory and started no installation, detection, download or extraction.
C27_MissingVideoNoSideEffect ==
    (prog \in Meshroom /\ run_no >= 1 /\ ~video_exists /\ pc # "check_video") =>
        /\ pc = "exited"
        /\ exit_code = 1
        /\ made = {}
        /\ log = <<>>
        /\ detect_calls = 0
        /\ dl = "none"
        /\ ef = "none"

C27_Witness ==
    /\ prog \in Meshroom
    /\ ~video_exists
    /\ pc = "exited"
    /\ exit_code = 1
    /\ run_no = 2
    /\ tree # "none"

\* C28: when the images directory or the COLMAP executable is missing, the
\* shell pipeline exits with 1 at its input checks, having started no
\* command and with the scene data, the database and the reconstruction
\* directories exactly as it found them.
C28_ValidatesBeforeDestroying ==
    /\ []((prog = "chain" /\ ~(images_ok /\ colmap_ok) /\ pc # "chain_check") =>
            pc = "exited" /\ exit_code = 1 /\ log = <<>>)
    /\ [][(pc = "chain_check" /\ ~(images_ok /\ colmap_ok)) =>
            UNCHANGED <<scene, db, chain_dirs>>]_vars

C28_Witness ==
    /\ prog = "chain"
    /\ images_ok
    /\ ~colmap_ok
    /\ pc = "exited"
    /\ exit_code = 1
    /\ scene
    /\ db
    /\ chain_dirs

\* C29: whatever an earlier run left behind, reconstruction directories
\* included, the shell pipeline does not stop at the cleanup of step 2 because
\* of it, and feature extraction finds none of the leftovers.
C29_RerunnableCleanup ==
    prog = "chain" =>
        /\ (pc = "exited" /\ fail_at = "rm_f_leftovers") => ~chain_dirs
        /\ (pc = "stage" /\ idx = 5) => ~chain_dirs /\ ~db

\* C30: in one process lifetime a poller begins to handle a name ending in
\* .mov or .mp4 at most once, whether or not the attempt succeeded, and never
\* begins to handle any other name.
C30_AtMostOnce ==
    prog \in Pollers =>
        \A n \in Names :
            /\ attempts[n] <= 1
            /\ ~IsVideo(n) => attempts[n] = 0
            /\ n \in delivered => attempts[n] = 1

C30_Witness ==
    /\ prog = "poller"
    /\ cycles = 2
    /\ pc = "poll"
    /\ \E n \in present : IsVideo(n) /\ attempts[n] = 1 /\ n \notin delivered
    /\ \E n \in present : ~IsVideo(n)
    /\ \E n \in delivered : attempts[n] = 1

\* C31: under fair polling every video key that stays in the bucket is
\* eventually transferred by the EC2 poller, a failed attempt being followed
\* by another in a later cycle.
C31_EventuallyTransferred ==
    \A n \in Names :
        (prog = "poller" /\ IsVideo(n) /\ n \in present) ~> (n \in delivered)

C34_ProcessVideoReturns ==
    (prog = "lambda_poller" /\ pc = "n_wait") ~> (cur = <<>>)

\* C33 as stated: _wait_for_gemini_file_active ends in one of three ways
\* only: the file returned, RuntimeError, TimeoutError.
C33_ThreeOutcomes ==
    /\ [](/\ wout \in {"none", "returned", "RuntimeError", "TimeoutError"}
          /\ wout = "returned" => fstate = "ACTIVE")
    /\ (pc = "a_wait") ~> (wout \in {"returned", "RuntimeError", "TimeoutError"})

\* C33 as amended: _wait_for_gemini_file_active always terminates, with
\* exactly one of four outcomes: it returns a file whose state is ACTIVE, it
\* raises RuntimeError as soon as a poll observes FAILED, it raises
\* TimeoutError once timeout_s has elapsed without ACTIVE or FAILED, or it
\* passes on the exception of a poll that raised; it never returns a file
\* that is not ACTIVE.
C33_WaitTerminates ==
    /\ [](/\ wout \in {"none", "returned", "RuntimeError", "TimeoutError", "raised"}
          /\ wout = "returned" => fstate = "ACTIVE"
          /\ wout = "RuntimeError" => fstate = "FAILED"
          /\ wout = "TimeoutError" => elapsed >= timeout_s /\ fstate = "PROCESSING"
          /\ (pc = "a_wait") = (fstate # "none" /\ wout = "none"))
    /\ [][(pc = "a_wait" /\ fstate' # fstate) =>
            /\ fstate' = "FAILED" => wout' = "RuntimeError"
            /\ fstate' = "ACTIVE" => wout' = "returned"]_vars
    /\ (pc = "a_wait") ~> (wout # "none")

C33_Witness ==
    /\ wout = "TimeoutError"
    /\ elapsed > timeout_s
    /\ timeout_s = MaxTimeout

\* C35: once the upload route has written its temporary file, every way out
\* of the route goes through the removal of that file: on success, when the
\* narration raises, when the session request fails, and when the session id
\* is missing. The file is still there afterwards only when the removal
\* itself failed, and the removal, failed or not, leaves the route's result
\* or error as it was.
C35_TempFileRemoved ==
    /\ []((route = "upload" /\ pc = "exited" /\ tmp # "partial") =>
            /\ rm_tried
            /\ tmp \in {"written", "removed"}
            /\ resp # "none")
    /\ [](rm_tried => pc = "exited" /\ route = "upload")
    /\ [][(pc = "a_finally") => (resp' = resp /\ pc' = "exited" /\ rm_tried')]_vars

C35_Witness ==
    /\ route = "upload"
    /\ pc = "exited"
    /\ resp = "http_500"
    /\ rm_tried
    /\ tmp = "written"

====
